---- MODULE Spec2Model ----
(***************************************************************************)
(* Session and access-control core of the budget-management backend:      *)
(* register / login / refresh / logout (services/auth/auth.service.ts),   *)
(* the request-authentication gate (middlewares/auth.middleware.ts), the  *)
(* token codec (utils/jwt.ts) and the token cache (utils/cache.ts); the   *)
(* rate limiter (utils/rateLimiter.ts), the ownership guard                *)
(* (middlewares/ownership.middleware.ts) and the expense routes with the   *)
(* expense service behind them.                                            *)
(*                                                                         *)
(* Every request handler is an async function: it runs atomically between *)
(* two awaits, and other handlers interleave at the awaits.  A handler is *)
(* therefore one action per store operation it awaits: the operation's    *)
(* effect together with the synchronous code that runs on its answer, up  *)
(* to the next await (or together with the code before it, for the first  *)
(* operation of a handler).  Time is the value of Date.now(), counted in  *)
(* steps of 1/Hz second; JWT timestamps are whole seconds.                 *)
(***************************************************************************)
EXTENDS Integers, FiniteSets, Sequences, TLC, Bags

VARIABLES
    now,            \* Date.now(), in steps of 1/Hz second
    users,          \* prisma.user: ids (= e-mails) of the registered principals
    sessions,       \* prisma.refreshToken: rows [token, userId, expiresAt], token unique
    cache,          \* tokenCache.cache: key -> [set, value, expiry]; set = FALSE: no entry
    proc,           \* the request handlers in flight, one record per handler slot
    issuedRefresh,  \* refresh tokens delivered to clients (refreshToken cookie)
    issuedAccess,   \* access tokens delivered to clients (response body)
    events,         \* requests started, clock advances and store failures so far
    last,           \* the handler slot that took the latest step ("env": the clock)
    used,           \* history: refresh tokens a successful Refresh has rotated away
    dead,           \* history: refresh tokens issued before a completed Login of their user
    killed,         \* history: refresh tokens issued before a Logout, until the next Login
    fresh,          \* history: tokens a Refresh returned, with no Login, Logout or rotation since
    logoutAt,       \* history: user -> time of the last Logout not followed by a Login, or -1
    limiter,        \* a RateLimiter: its options and its requests map (key -> window)
    hits,           \* history: the answers of the rate limiter, in order
    expenses,       \* prisma.expense: id -> [exists, userId, isDeleted]
    written,        \* history: key -> the latest tokenCache.set and whether it still stands
    asked           \* history: caller address and route of the auth-route requests, in order

vars == <<now, users, sessions, cache, proc, issuedRefresh, issuedAccess,
          events, last, used, dead, killed, fresh, logoutAt,
          limiter, hits, expenses, written, asked>>

----------------------------------------------------------------------------
(* Bounds of the model *)

MaxEvents == 4
Hz == 2
MaxHits == 4
MaxLimTime == 5
MaxWindow == 3
MaxMax == 2
MaxRequests == 2

(* Program constants *)

AccessTTL == 900
RefreshTTL == 604800
SessionTTL == 7 * 24 * 60 * 60 * Hz
CacheTTL == 5 * 60 * Hz

Users == {"u1", "u2"}
Procs == {"h1", "h2"}
Passwords == {"good", "bad"}

\* The clock advances by one second, to just past the cache TTL, by the
\* life of an access token or by the life of a session row.
TickSteps == {Hz, CacheTTL + 1, AccessTTL * Hz, SessionTTL}

----------------------------------------------------------------------------
(* Token codec: utils/jwt.ts.  A token is its payload, the secret that     *)
(* signed it and the iat claim (whole seconds); exp = iat + lifetime.      *)

NoTok == [kind |-> "none", userId |-> "", iat |-> 0]
NoRow == [token |-> NoTok, userId |-> "", expiresAt |-> 0]

Sec(t) == t \div Hz

generateAccessToken(u, t) == [kind |-> "access", userId |-> u, iat |-> Sec(t)]

generateRefreshToken(u, t) == [kind |-> "refresh", userId |-> u, iat |-> Sec(t)]

\* jwt.verify: the signature must be made with the access secret and the
\* token is expired once the clock (seconds) has reached exp.
verifyAccessToken(tok, t) == tok.kind = "access" /\ Sec(t) < tok.iat + AccessTTL

verifyRefreshToken(tok, t) == tok.kind = "refresh" /\ Sec(t) < tok.iat + RefreshTTL

----------------------------------------------------------------------------
(* Session store queries *)

SessionsOf(u) == {r \in sessions : r.userId = u}

\* prisma.refreshToken.findUnique({ where: { token } })
FindByToken(tok) ==
    IF \E r \in sessions : r.token = tok
    THEN CHOOSE r \in sessions : r.token = tok
    ELSE NoRow

\* prisma.refreshToken.findFirst({ where: { userId, expiresAt: { gt: now } } })
HasActiveSession(u, t) == \E r \in sessions : r.userId = u /\ r.expiresAt > t

----------------------------------------------------------------------------
(* Session validity cache: class TokenCache, utils/cache.ts *)

\* the key "user:<id>:active"
Key(u) == <<"user", u, "active">>
Keys == {Key(u) : u \in Users}

NoEntry == [set |-> FALSE, value |-> FALSE, expiry |-> 0]

\* set(key, value): overwrites, expiry = Date.now() + TTL
CacheSet(c, k, v, t) == [c EXCEPT ![k] = [set |-> TRUE, value |-> v, expiry |-> t + CacheTTL]]

\* (variant) get treats an entry as expired from its expiry instant on
CacheHit_FromExpiry(c, k, t) == c[k].set /\ t < c[k].expiry

\* get(key): null for a missing entry and for one past its expiry
CacheHit(c, k, t) == c[k].set /\ ~(t > c[k].expiry)

CacheGet(c, k, t) == IF CacheHit(c, k, t) THEN c[k].value ELSE "null"

\* get(key) deletes the entry it finds expired
CacheAfterGet(c, k, t) == IF c[k].set /\ t > c[k].expiry THEN [c EXCEPT ![k] = NoEntry] ELSE c

\* delete(key)
CacheDelete(c, k) == [c EXCEPT ![k] = NoEntry]

\* no set(key, ...) has been made, or a delete or clear followed the latest
NoWrite == [live |-> FALSE, value |-> FALSE, at |-> 0]

----------------------------------------------------------------------------
(* Handler slots *)

Idle == [pc |-> "idle", op |-> "none", user |-> "", tok |-> NoTok, row |-> NoRow,
         newTok |-> NoTok, acc |-> NoTok, exp |-> 0, pre |-> {}, peers |-> {},
         ok |-> FALSE, status |-> 0, msg |-> "", cause |-> "",
         route |-> "", rid |-> "", sent |-> "absent", body |-> "absent",
         trail |-> <<>>, seen |-> {}]

InFlight(q) == proc[q].pc \notin {"idle", "done"}

\* A request starting in slot p replaces the slot's last response; it
\* overlaps every handler in flight and no handler that has responded.
Begin(p, rec) ==
    [q \in Procs |->
        IF q = p THEN [rec EXCEPT !.peers = {r \in Procs : r # p /\ InFlight(r)}]
        ELSE IF InFlight(q) THEN [proc[q] EXCEPT !.peers = @ \cup {p}]
        ELSE [proc[q] EXCEPT !.peers = @ \ {p}]]

\* The response: the handler's locals are dropped, the outcome is kept.
Fail(rec, st, m, why) ==
    [rec EXCEPT !.pc = "done", !.ok = FALSE, !.status = st, !.msg = m, !.cause = why,
                !.row = NoRow, !.exp = 0, !.pre = {}, !.newTok = NoTok, !.acc = NoTok]

Succeed(rec, st, m) ==
    [rec EXCEPT !.pc = "done", !.ok = TRUE, !.status = st, !.msg = m, !.cause = "",
                !.row = NoRow, !.exp = 0, !.pre = {}]

\* Groups of variables an action leaves alone
clientv == <<issuedRefresh, issuedAccess>>
histv == <<used, dead, killed, fresh, logoutAt>>
guardv == <<limiter, hits, expenses, written, asked>>
sessionv == <<users, sessions, cache, proc, clientv, histv, events, last>>

CanStart(p) == proc[p].pc \in {"idle", "done"} /\ events < MaxEvents

InitSessions ==
    /\ now = 0
    /\ users = {}
    /\ sessions = {}
    /\ cache = [k \in Keys |-> NoEntry]
    /\ proc = [p \in Procs |-> Idle]
    /\ issuedRefresh = {}
    /\ issuedAccess = {}
    /\ events = 0
    /\ last = "env"
    /\ used = {}
    /\ dead = {}
    /\ killed = {}
    /\ fresh = {}
    /\ logoutAt = [u \in Users |-> -1]

ExpIds == {"e1", "e2"}
NoExpense == [exists |-> FALSE, userId |-> "", isDeleted |-> FALSE, amount |-> 0]


----------------------------------------------------------------------------
(* Rate limiter: class RateLimiter, utils/rateLimiter.ts.  Times and       *)
(* windowMs are counted in clock steps, like Date.now().                   *)

\* the keys keyGenerator yields: req.ip + ':auth'
LimKeys == {"ip1:auth", "ip2:auth"}

NoWindow == [set |-> FALSE, count |-> 0, resetTime |-> 0]

NewLimiter(w, m) == [windowMs |-> w, max |-> m, requests |-> [k \in LimKeys |-> NoWindow]]

\* authLimiter: 5 attempts per 15 minutes
authLimiter == NewLimiter(15 * 60 * Hz, 5)

\* Math.ceil(a / b)
Ceil(a, b) == -((-a) \div b)

\* a variant that opens a window only for a key it has never seen
RequestData_NoReset(l, k, t) ==
    IF ~l.requests[k].set
    THEN [set |-> TRUE, count |-> 0, resetTime |-> t + l.windowMs]
    ELSE l.requests[k]

\* a variant whose window slides: every request moves resetTime
RequestData_Sliding(l, k, t) ==
    IF ~l.requests[k].set \/ t > l.requests[k].resetTime
    THEN [set |-> TRUE, count |-> 0, resetTime |-> t + l.windowMs]
    ELSE [l.requests[k] EXCEPT !.resetTime = t + l.windowMs]

\* requests.get(key), replaced by a new window when there is none or the
\* window has passed (now > resetTime)
RequestData(l, k, t) ==
    IF ~l.requests[k].set \/ t > l.requests[k].resetTime
    THEN [set |-> TRUE, count |-> 0, resetTime |-> t + l.windowMs]
    ELSE l.requests[k]

\* count++ without a check of the limit first: a variant that stops counting
\* once the limit is reached
Counted_OnlyAccepted(l, k, t) ==
    LET d == RequestData(l, k, t)
    IN  IF d.count >= l.max THEN [d EXCEPT !.count = l.max + 1]
        ELSE [d EXCEPT !.count = @ + 1]

\* requestData.count++
Counted(l, k, t) == [RequestData(l, k, t) EXCEPT !.count = @ + 1]

\* the answer of the middleware: 429 with the headers, or next()
Answer(l, k, t) ==
    LET d == Counted(l, k, t)
        reset == Ceil(d.resetTime - t, Hz)
    IN  IF d.count > l.max
        THEN [key |-> k, at |-> t, ok |-> FALSE, status |-> 429,
              limit |-> l.max, remaining |-> 0, reset |-> reset]
        ELSE [key |-> k, at |-> t, ok |-> TRUE, status |-> 0,
              limit |-> l.max, remaining |-> l.max - d.count, reset |-> reset]

\* middleware(): one request under key k
Hit(k) ==
    /\ Len(hits) < MaxHits
    /\ limiter' = [limiter EXCEPT !.requests[k] = Counted(limiter, k, now)]
    /\ hits' = Append(hits, Answer(limiter, k, now))
    /\ UNCHANGED <<sessionv, expenses, written, asked, now>>

\* cleanExpired(), run by the timer: drops the windows that have passed
cleanExpired ==
    /\ \E k \in LimKeys : limiter.requests[k].set /\ now > limiter.requests[k].resetTime
    /\ limiter' = [limiter EXCEPT !.requests =
                      [k \in LimKeys |->
                          IF now > limiter.requests[k].resetTime THEN NoWindow
                          ELSE limiter.requests[k]]]
    /\ UNCHANGED <<sessionv, expenses, written, asked, hits, now>>

\* the clock of the limiter advances by one step
LimTick ==
    /\ now < MaxLimTime
    /\ now' = now + 1
    /\ UNCHANGED <<sessionv, limiter, expenses, written, asked, hits>>

\* the state after construction: the limiter of the auth routes, no answers
\* yet, no expense
Init ==
    /\ InitSessions
    /\ limiter = authLimiter
    /\ hits = <<>>
    /\ written = [k \in Keys |-> NoWrite]
    /\ asked = <<>>
    /\ expenses = [e \in ExpIds |-> NoExpense]

InitLimiter ==
    /\ InitSessions
    /\ limiter \in {NewLimiter(w, m) : w \in 2..MaxWindow, m \in 1..MaxMax}
    /\ hits = <<>>
    /\ written = [k \in Keys |-> NoWrite]
    /\ asked = <<>>
    /\ expenses = [e \in ExpIds |-> NoExpense]

NextLimiter ==
    \/ \E k \in LimKeys : Hit(k)
    \/ cleanExpired
    \/ LimTick

SpecLimiter == InitLimiter /\ [][NextLimiter]_vars

----------------------------------------------------------------------------
(* Register: registerUser, auth.service.ts 7-53; controller register *)

IssuedTo(u) == {t \in issuedRefresh : t.userId = u} \cup {r.token : r \in SessionsOf(u)}

\* prisma.user.findUnique by e-mail; an existing user is a failure
RegFind(p, u) ==
    /\ CanStart(p)
    /\ events' = events + 1
    /\ last' = p
    /\ LET rec == [Idle EXCEPT !.op = "register", !.user = u]
       IN  proc' = Begin(p, IF u \in users
                            THEN Fail(rec, 400, "User with this email already exists", "conflict")
                            ELSE [rec EXCEPT !.pc = "reg_create"])
    /\ UNCHANGED <<guardv, now, users, sessions, cache, clientv, histv>>

\* hashPassword and prisma.user.create (the e-mail is unique); on its answer
\* generateAccessToken, generateRefreshToken and the row's expiresAt
RegCreate(p) ==
    /\ proc[p].pc = "reg_create"
    /\ last' = p
    /\ IF proc[p].user \in users
       THEN /\ proc' = [proc EXCEPT ![p] = Fail(@, 400, "Unique constraint failed", "P2002")]
            /\ UNCHANGED users
       ELSE /\ users' = users \cup {proc[p].user}
            /\ proc' = [proc EXCEPT ![p].pc = "reg_save",
                                    ![p].acc = generateAccessToken(proc[p].user, now),
                                    ![p].newTok = generateRefreshToken(proc[p].user, now),
                                    ![p].exp = now + SessionTTL]
    /\ UNCHANGED <<guardv, now, sessions, cache, events, clientv, histv>>

\* prisma.refreshToken.create (the token is unique), then the response
RegSave(p) ==
    /\ proc[p].pc = "reg_save"
    /\ last' = p
    /\ IF \E r \in sessions : r.token = proc[p].newTok
       THEN /\ proc' = [proc EXCEPT ![p] = Fail(@, 400, "Unique constraint failed", "P2002")]
            /\ UNCHANGED <<sessions, clientv, logoutAt>>
       ELSE /\ sessions' = sessions \cup
                    {[token |-> proc[p].newTok, userId |-> proc[p].user, expiresAt |-> proc[p].exp]}
            /\ proc' = [proc EXCEPT ![p] = Succeed(@, 201, "User registered successfully")]
            /\ issuedRefresh' = issuedRefresh \cup {proc[p].newTok}
            /\ issuedAccess' = issuedAccess \cup {proc[p].acc}
            /\ logoutAt' = [logoutAt EXCEPT ![proc[p].user] = -1]
    /\ UNCHANGED <<guardv, now, users, cache, events, used, dead, killed, fresh>>

----------------------------------------------------------------------------
(* Login: loginUser, auth.service.ts 56-100; controller login *)

\* (variant) the message tells a missing user from a wrong password
LoginFailure_Telling(u, pw) ==
    IF u \notin users THEN "User not found"
    ELSE IF pw # "good" THEN "Invalid email or password"
    ELSE "none"

\* the Error loginUser throws: no user with the e-mail, or comparePassword
\* false
LoginFailure(u, pw) ==
    IF u \notin users THEN "Invalid email or password"
    ELSE IF pw # "good" THEN "Invalid email or password"
    ELSE "none"

\* prisma.user.findUnique by e-mail and comparePassword
LogFind(p, u, pw) ==
    /\ CanStart(p)
    /\ events' = events + 1
    /\ last' = p
    /\ LET rec == [Idle EXCEPT !.op = "login", !.user = u, !.pre = IssuedTo(u)]
       IN  proc' = Begin(p, IF LoginFailure(u, pw) # "none"
                            THEN Fail(rec, 400, LoginFailure(u, pw), "credentials")
                            ELSE [rec EXCEPT !.pc = "log_del"])
    /\ UNCHANGED <<guardv, now, users, sessions, cache, clientv, histv>>

\* (mutant) the deleteMany is left out
DeleteAllFor_Skipped(u) == sessions

\* prisma.refreshToken.deleteMany({ where: { userId } })
DeleteAllFor(u) == sessions \ SessionsOf(u)

\* the deleteMany; on its answer the new tokens and the row's expiresAt
LogDel(p) ==
    /\ proc[p].pc = "log_del"
    /\ last' = p
    /\ sessions' = DeleteAllFor(proc[p].user)
    /\ proc' = [proc EXCEPT ![p].pc = "log_save",
                            ![p].acc = generateAccessToken(proc[p].user, now),
                            ![p].newTok = generateRefreshToken(proc[p].user, now),
                            ![p].exp = now + SessionTTL]
    /\ fresh' = {t \in fresh : t.userId # proc[p].user}
    /\ UNCHANGED <<guardv, now, users, cache, events, clientv, used, dead, killed, logoutAt>>

\* prisma.refreshToken.create, then the response
LogSave(p) ==
    /\ proc[p].pc = "log_save"
    /\ last' = p
    /\ IF \E r \in sessions : r.token = proc[p].newTok
       THEN /\ proc' = [proc EXCEPT ![p] = Fail(@, 400, "Unique constraint failed", "P2002")]
            /\ UNCHANGED <<sessions, clientv, dead, killed, logoutAt>>
       ELSE /\ sessions' = sessions \cup
                    {[token |-> proc[p].newTok, userId |-> proc[p].user, expiresAt |-> proc[p].exp]}
            /\ proc' = [proc EXCEPT ![p] = Succeed(@, 200, "Login successful")]
            /\ issuedRefresh' = issuedRefresh \cup {proc[p].newTok}
            /\ issuedAccess' = issuedAccess \cup {proc[p].acc}
            /\ dead' = dead \cup proc[p].pre
            /\ killed' = {t \in killed : t.userId # proc[p].user}
            /\ logoutAt' = [logoutAt EXCEPT ![proc[p].user] = -1]
    /\ UNCHANGED <<guardv, now, users, cache, events, used, fresh>>

----------------------------------------------------------------------------
(* Refresh: refreshUserToken, auth.service.ts 103-154; controller refreshToken *)

RefreshError == "Invalid or expired refresh token"

\* if (!storedToken || storedToken.expiresAt < new Date())
RowRejected(row, t) == row = NoRow \/ row.expiresAt < t

\* verifyRefreshToken and prisma.refreshToken.findUnique by token; on its
\* answer the check of the stored row, the new tokens and the new expiresAt
RefFind(p, t) ==
    /\ CanStart(p)
    /\ events' = events + 1
    /\ last' = p
    /\ LET rec == [Idle EXCEPT !.op = "refresh", !.user = t.userId, !.tok = t]
           row == FindByToken(t)
       IN  proc' = Begin(p,
                IF ~verifyRefreshToken(t, now) THEN Fail(rec, 401, RefreshError, "jwt")
                ELSE IF RowRejected(row, now) THEN Fail(rec, 401, RefreshError, "norow")
                ELSE [rec EXCEPT !.pc = "ref_txn", !.row = row,
                                 !.acc = generateAccessToken(row.userId, now),
                                 !.newTok = generateRefreshToken(row.userId, now),
                                 !.exp = now + SessionTTL])
    /\ UNCHANGED <<guardv, now, users, sessions, cache, clientv, histv>>

\* prisma.$transaction([delete({ token: old }), create(new)]): the table after
\* the transaction, or the table as it was when a statement throws
\* (delete of a missing row, create of a token that is already stored).
RotateOk(old, new) ==
    /\ \E r \in sessions : r.token = old
    /\ ~ \E r \in sessions : r.token # old /\ r.token = new.token

\* (mutant) delete and create run one after the other, not as a transaction
Rotate_NotAtomic(old, new) ==
    IF RotateOk(old, new)
    THEN {r \in sessions : r.token # old} \cup {new}
    ELSE {r \in sessions : r.token # old}

Rotate(old, new) ==
    IF RotateOk(old, new)
    THEN {r \in sessions : r.token # old} \cup {new}
    ELSE sessions

\* (variant) delete and create are two store operations the gate can run
\* between: the handler deletes the presented row, then inserts the new one
RefTxn_DeleteThenCreate(p) ==
    /\ proc[p].pc = "ref_txn"
    /\ last' = p
    /\ LET old == proc[p].tok
           new == [token |-> proc[p].newTok, userId |-> proc[p].user,
                   expiresAt |-> proc[p].exp]
       IN  IF proc[p].row # NoRow
           THEN /\ sessions' = {r \in sessions : r.token # old}
                /\ proc' = [proc EXCEPT ![p] =
                       IF \E r \in sessions : r.token = old
                       THEN [@ EXCEPT !.row = NoRow]
                       ELSE Fail(@, 401, RefreshError, "rollback")]
                /\ UNCHANGED <<clientv, used, fresh>>
           ELSE IF \E r \in sessions : r.token = new.token
           THEN /\ proc' = [proc EXCEPT ![p] = Fail(@, 401, RefreshError, "rollback")]
                /\ UNCHANGED <<sessions, clientv, used, fresh>>
           ELSE /\ sessions' = sessions \cup {new}
                /\ proc' = [proc EXCEPT ![p] = Succeed(@, 200, "Token refreshed successfully")]
                /\ issuedRefresh' = issuedRefresh \cup {proc[p].newTok}
                /\ issuedAccess' = issuedAccess \cup {proc[p].acc}
                /\ used' = used \cup {old}
                /\ fresh' = (fresh \ {old}) \cup {proc[p].newTok}
    /\ UNCHANGED <<guardv, now, users, cache, events, dead, killed, logoutAt>>

RefTxn(p) ==
    /\ proc[p].pc = "ref_txn"
    /\ last' = p
    /\ LET old == proc[p].tok
           new == [token |-> proc[p].newTok, userId |-> proc[p].row.userId,
                   expiresAt |-> proc[p].exp]
       IN  /\ sessions' = Rotate(old, new)
           /\ IF RotateOk(old, new)
              THEN /\ proc' = [proc EXCEPT ![p] = Succeed(@, 200, "Token refreshed successfully")]
                   /\ issuedRefresh' = issuedRefresh \cup {proc[p].newTok}
                   /\ issuedAccess' = issuedAccess \cup {proc[p].acc}
                   /\ used' = used \cup {old}
                   /\ fresh' = (fresh \ {old}) \cup {proc[p].newTok}
              ELSE /\ proc' = [proc EXCEPT ![p] = Fail(@, 401, RefreshError, "rollback")]
                   /\ UNCHANGED <<clientv, used, fresh>>
    /\ UNCHANGED <<guardv, now, users, cache, events, dead, killed, logoutAt>>

----------------------------------------------------------------------------
(* The authentication gate: authenticateToken, auth.middleware.ts 95-124,  *)
(* in front of logout (auth.routes.ts 15) and of the expense routes.       *)

Routes == {"logout", "expenses"}

SessionExpired == "Session expired. Please login again."
InvalidAccess == "Invalid or expired access token"

\* (mutant) the gate verifies the token only
Gate_TokenOnly(a, t) ==
    IF ~verifyAccessToken(a, t) THEN InvalidAccess ELSE "pass"

\* (variant) the gate tells an expired token from one that fails verification
Gate_TellsExpiry(a, t) ==
    IF a.kind # "access" THEN "Invalid access token"
    ELSE IF ~verifyAccessToken(a, t) THEN "Access token expired"
    ELSE IF ~HasActiveSession(a.userId, t) THEN SessionExpired
    ELSE "pass"

\* (variant) the gate accepts a token only with the session that issued it
Gate_BoundToSession(a, t) ==
    IF ~verifyAccessToken(a, t) THEN InvalidAccess
    ELSE IF ~ \E r \in sessions : /\ r.userId = a.userId /\ r.expiresAt > t
                                  /\ r.token.iat = a.iat
         THEN SessionExpired
    ELSE "pass"

\* The gate's answer for token a at time t: "pass", or the 401 it sends.
Gate(a, t) ==
    IF ~verifyAccessToken(a, t) THEN InvalidAccess
    ELSE IF ~HasActiveSession(a.userId, t) THEN SessionExpired
    ELSE "pass"

Auth(p, a, route) ==
    /\ CanStart(p)
    /\ events' = events + 1
    /\ last' = p
    /\ LET rec == [Idle EXCEPT !.op = route, !.user = a.userId, !.tok = a]
           g == Gate(a, now)
       IN  proc' = Begin(p, IF g # "pass" THEN Fail(rec, 401, g, "gate")
                            ELSE IF route = "logout" THEN [rec EXCEPT !.pc = "out_del"]
                            ELSE Succeed(rec, 200, "next"))
    /\ UNCHANGED <<guardv, now, users, sessions, cache, clientv, histv>>

\* (mutant) Logout answers without deleting the user's rows
OutDel_KeepsRows(p) ==
    /\ proc[p].pc = "out_del"
    /\ last' = p
    /\ proc' = [proc EXCEPT ![p] = Succeed(@, 200, "Logout successful")]
    /\ killed' = killed \cup {t \in issuedRefresh : t.userId = proc[p].user}
    /\ fresh' = {t \in fresh : t.userId # proc[p].user}
    /\ logoutAt' = [logoutAt EXCEPT ![proc[p].user] = now]
    /\ UNCHANGED <<guardv, now, users, sessions, cache, events, clientv, used, dead>>

\* Logout: logoutUser, auth.service.ts 157-162; controller logout
OutDel(p) ==
    /\ proc[p].pc = "out_del"
    /\ last' = p
    /\ sessions' = DeleteAllFor(proc[p].user)
    /\ proc' = [proc EXCEPT ![p] = Succeed(@, 200, "Logout successful")]
    /\ killed' = killed \cup {t \in issuedRefresh : t.userId = proc[p].user}
    /\ fresh' = {t \in fresh : t.userId # proc[p].user}
    /\ logoutAt' = [logoutAt EXCEPT ![proc[p].user] = now]
    /\ UNCHANGED <<guardv, now, users, cache, events, clientv, used, dead>>

----------------------------------------------------------------------------
(* Environment *)

\* The store operation a handler is waiting for throws (store unavailable).
\* register, login and logout answer 400 with the error's message, refresh
\* answers 401 with its one message.
StoreSteps == {"reg_create", "reg_save", "log_del", "log_save", "ref_txn", "out_del"}

StoreFault(p) ==
    /\ proc[p].pc \in StoreSteps
    /\ events < MaxEvents
    /\ events' = events + 1
    /\ last' = p
    /\ proc' = [proc EXCEPT ![p] =
            IF proc[p].op = "refresh" THEN Fail(@, 401, RefreshError, "store")
            ELSE Fail(@, 400, "store unavailable", "store")]
    /\ UNCHANGED <<guardv, now, users, sessions, cache, clientv, histv>>

Tick(d) ==
    /\ events < MaxEvents
    /\ events' = events + 1
    /\ last' = "env"
    /\ now' = now + d
    /\ UNCHANGED <<guardv, users, sessions, cache, proc, clientv, histv>>

Next ==
    \/ \E p \in Procs, u \in Users : RegFind(p, u)
    \/ \E p \in Procs : RegCreate(p)
    \/ \E p \in Procs : RegSave(p)
    \/ \E p \in Procs, u \in Users, pw \in Passwords : LogFind(p, u, pw)
    \/ \E p \in Procs : LogDel(p)
    \/ \E p \in Procs : LogSave(p)
    \/ \E p \in Procs, t \in issuedRefresh : RefFind(p, t)
    \/ \E p \in Procs : RefTxn(p)
    \/ \E p \in Procs, a \in issuedAccess, route \in Routes : Auth(p, a, route)
    \/ \E p \in Procs : OutDel(p)
    \/ \E p \in Procs : StoreFault(p)
    \/ \E d \in TickSteps : Tick(d)

Spec == Init /\ [][Next]_vars

\* The same handlers, one request at a time: a request starts only when no
\* handler is in flight.
Quiet == \A q \in Procs : ~InFlight(q)

NextSeq ==
    \/ \E p \in Procs, u \in Users : Quiet /\ RegFind(p, u)
    \/ \E p \in Procs : RegCreate(p)
    \/ \E p \in Procs : RegSave(p)
    \/ \E p \in Procs, u \in Users, pw \in Passwords : Quiet /\ LogFind(p, u, pw)
    \/ \E p \in Procs : LogDel(p)
    \/ \E p \in Procs : LogSave(p)
    \/ \E p \in Procs, t \in issuedRefresh : Quiet /\ RefFind(p, t)
    \/ \E p \in Procs : RefTxn(p)
    \/ \E p \in Procs, a \in issuedAccess, route \in Routes : Quiet /\ Auth(p, a, route)
    \/ \E p \in Procs : OutDel(p)
    \/ \E p \in Procs : StoreFault(p)
    \/ \E d \in TickSteps : Tick(d)

SpecSeq == Init /\ [][NextSeq]_vars

\* The requests one at a time, with a client of the exported tokenCache
\* that writes entries: tokenCache.set(key, value).
SetEntry(k, v) ==
    /\ events < MaxEvents
    /\ events' = events + 1
    /\ last' = "env"
    /\ cache' = CacheSet(cache, k, v, now)
    /\ UNCHANGED <<guardv, now, users, sessions, proc, clientv, histv>>

NextCached ==
    \/ NextSeq
    \/ \E k \in Keys, v \in BOOLEAN : SetEntry(k, v)

SpecCached == Init /\ [][NextCached]_vars

----------------------------------------------------------------------------
(* Expense routes: routes/expense.routes.ts 56-71, the ownership guard     *)
(* (middlewares/ownership.middleware.ts), validateObjectId and the expense *)
(* service.  router.use(authenticateToken) runs first on every route.      *)

ExpRoutes == {"POST /", "GET /", "GET /:id", "PUT /:id", "DELETE /:id"}
ById == {"GET /:id", "PUT /:id", "DELETE /:id"}
Mutating == {"POST /", "PUT /:id"}

\* the :id parameter of the requests: the id of a row, or a string that is
\* no ObjectID
IdParams == ExpIds \cup {"bad"}

\* req.body.userId: missing, empty, or a user id
BodyOwners == Users \cup {"absent", ""}

NotFound == "Expense not found"
AccessDenied == "Access denied. You can only access your own resources."
OnlyYourself == "You can only create/modify resources for yourself"

\* isValidObjectId(id)
isValidObjectId(id) == id \in ExpIds

\* a JavaScript condition on req.body.userId: undefined and '' are falsy
Truthy(b) == b \notin {"absent", ""}

\* (variant) the guard answers for a missing row only
checkResourceOwnership_NoOwnerCheck(u, id) ==
    LET e == expenses[id]
    IN  IF ~e.exists THEN [status |-> 404, msg |-> NotFound]
        ELSE IF e.isDeleted THEN [status |-> 404, msg |-> NotFound]
        ELSE [status |-> 0, msg |-> "next"]

\* checkResourceOwnership({ resourceType: 'expense' }) for caller u, from
\* the row prisma.expense.findUnique returns
checkResourceOwnership(u, id) ==
    LET e == expenses[id]
    IN  IF ~e.exists THEN [status |-> 404, msg |-> NotFound]
        ELSE IF e.isDeleted THEN [status |-> 404, msg |-> NotFound]
        ELSE IF e.userId # u THEN [status |-> 403, msg |-> AccessDenied]
        ELSE [status |-> 0, msg |-> "next"]

\* (variant) the guard overwrites the owner id and never rejects
enforceUserOwnership_Trusting(u, route, b) ==
    [status |-> 0, msg |-> "next", body |-> IF Truthy(b) THEN b ELSE u]

\* enforceUserOwnership() for caller u: the answer and req.body.userId after
enforceUserOwnership(u, route, b) ==
    IF route \in Mutating /\ Truthy(b) /\ b # u
    THEN [status |-> 403, msg |-> OnlyYourself, body |-> b]
    ELSE [status |-> 0, msg |-> "next", body |-> IF route \in Mutating THEN u ELSE b]

FreeIds == {e \in ExpIds : ~expenses[e].exists}
Creating == {q \in Procs : proc[q].pc = "create"}

Passed(rec, gate) == [rec EXCEPT !.trail = Append(@, gate)]

\* router.use(authenticateToken), then the synchronous middlewares of the
\* route up to its first await
ExpAuth(p, a, route, id, b) ==
    /\ proc[p].pc \in {"idle", "done"}
    /\ events < MaxRequests
    /\ route \in ById => id \in IdParams
    /\ id = "bad" => b = "absent"
    /\ route \notin ById => id = ""
    /\ route \notin Mutating => b = "absent"
    /\ route = "POST /" => Cardinality(FreeIds) > Cardinality(Creating)
    /\ events' = events + 1
    /\ last' = p
    /\ LET rec == [Idle EXCEPT !.op = "expense", !.route = route, !.rid = id,
                               !.sent = b, !.body = b, !.user = a.userId, !.tok = a]
           g == Gate(a, now)
           in == Passed(Passed(rec, "token"), "session")
           own == enforceUserOwnership(a.userId, route, b)
       IN  proc' = Begin(p,
              IF g = InvalidAccess THEN Fail(rec, 401, g, "gate")
              ELSE IF g # "pass" THEN Fail(Passed(rec, "token"), 401, g, "gate")
              ELSE IF route \in ById
                   THEN IF isValidObjectId(id) THEN [in EXCEPT !.pc = "own"]
                        ELSE Fail(in, 400, "Invalid id format", "objectid")
              ELSE IF route = "POST /"
                   THEN IF own.status # 0 THEN Fail(in, own.status, own.msg, "owner-id")
                        ELSE [Passed(Passed(in, "owner-id"), "handler")
                                 EXCEPT !.pc = "create", !.body = own.body]
              ELSE [Passed(in, "handler") EXCEPT !.pc = "list"])
    /\ UNCHANGED <<written, asked, limiter, hits, expenses, now, users, sessions, cache, clientv, histv>>

\* (variant) the ownership guard answers and calls next() all the same
ExpOwn_NoStop(p) ==
    /\ proc[p].pc = "own"
    /\ last' = p
    /\ LET rec == proc[p]
           chk == checkResourceOwnership(rec.user, rec.rid)
           own == enforceUserOwnership(rec.user, rec.route, rec.body)
           in == Passed(rec, "ownership")
       IN  proc' = [proc EXCEPT ![p] =
              IF chk.status # 0 THEN [Passed(rec, "handler") EXCEPT !.pc = "find"]
              ELSE IF own.status # 0 THEN Fail(in, own.status, own.msg, "owner-id")
              ELSE [Passed(IF rec.route \in Mutating THEN Passed(in, "owner-id") ELSE in,
                           "handler")
                       EXCEPT !.pc = "find", !.body = own.body]]
    /\ UNCHANGED <<written, asked, limiter, hits, expenses, now, users, sessions, cache, events, clientv, histv>>

\* checkExpenseOwnership on the answer of prisma.expense.findUnique, then
\* enforceUserOwnership() (PUT) and the start of the controller
ExpOwn(p) ==
    /\ proc[p].pc = "own"
    /\ last' = p
    /\ LET rec == proc[p]
           chk == checkResourceOwnership(rec.user, rec.rid)
           own == enforceUserOwnership(rec.user, rec.route, rec.body)
           in == Passed(rec, "ownership")
       IN  proc' = [proc EXCEPT ![p] =
              IF chk.status # 0 THEN Fail(rec, chk.status, chk.msg, "ownership")
              ELSE IF own.status # 0 THEN Fail(in, own.status, own.msg, "owner-id")
              ELSE [Passed(IF rec.route \in Mutating THEN Passed(in, "owner-id") ELSE in,
                           "handler")
                       EXCEPT !.pc = "find", !.body = own.body]]
    /\ UNCHANGED <<written, asked, limiter, hits, expenses, now, users, sessions, cache, events, clientv, histv>>

\* the row the service's findFirst looks for: the caller's own row; the
\* delete does not ask for isDeleted: false
ServiceFinds(rec) ==
    LET e == expenses[rec.rid]
    IN  /\ e.exists /\ e.userId = rec.user
        /\ rec.route = "DELETE /:id" \/ ~e.isDeleted

\* getExpenseById / updateExpense / deleteExpense: prisma.expense.findFirst
\* and the controller's answer to 'Expense not found'
ExpFind(p) ==
    /\ proc[p].pc = "find"
    /\ last' = p
    /\ LET rec == proc[p]
       IN  proc' = [proc EXCEPT ![p] =
              IF ~ServiceFinds(rec)
              THEN Fail(rec, IF rec.route = "GET /:id" THEN 404 ELSE 400, NotFound, "notfound")
              ELSE IF rec.route = "GET /:id"
                   THEN [Succeed(rec, 200, "Expense retrieved successfully")
                            EXCEPT !.seen = {rec.rid}]
              ELSE [rec EXCEPT !.pc = "write"]]
    /\ UNCHANGED <<written, asked, limiter, hits, expenses, now, users, sessions, cache, events, clientv, histv>>

\* prisma.expense.update({ where: { id } }): the new data, or isDeleted: true
ExpWrite(p) ==
    /\ proc[p].pc = "write"
    /\ last' = p
    /\ LET rec == proc[p]
       IN  /\ expenses' = [expenses EXCEPT ![rec.rid] =
                  IF rec.route = "PUT /:id" THEN [@ EXCEPT !.amount = 1]
                  ELSE [@ EXCEPT !.isDeleted = TRUE]]
           /\ proc' = [proc EXCEPT ![p] =
                  IF rec.route = "PUT /:id"
                  THEN [Succeed(rec, 200, "Expense updated successfully") EXCEPT !.seen = {rec.rid}]
                  ELSE Succeed(rec, 200, "Expense deleted successfully")]
    /\ UNCHANGED <<written, asked, limiter, hits, now, users, sessions, cache, events, clientv, histv>>

\* createExpense: prisma.expense.create with userId = req.user.userId
ExpCreate(p) ==
    /\ proc[p].pc = "create"
    /\ last' = p
    /\ \E e \in FreeIds :
          /\ expenses' = [expenses EXCEPT ![e] =
                 [exists |-> TRUE, userId |-> proc[p].user, isDeleted |-> FALSE, amount |-> 0]]
          /\ proc' = [proc EXCEPT ![p] =
                 [Succeed(@, 201, "Expense created successfully") EXCEPT !.seen = {e}]]
    /\ UNCHANGED <<written, asked, limiter, hits, now, users, sessions, cache, events, clientv, histv>>

\* getExpenses without the userId filter: every live row is listed
ExpList_AllRows(p) ==
    /\ proc[p].pc = "list"
    /\ last' = p
    /\ proc' = [proc EXCEPT ![p] =
           [Succeed(@, 200, "Expenses retrieved successfully")
               EXCEPT !.seen = {e \in ExpIds : /\ expenses[e].exists
                                               /\ ~expenses[e].isDeleted}]]
    /\ UNCHANGED <<written, asked, limiter, hits, expenses, now, users, sessions, cache, events, clientv, histv>>

\* getExpenses: prisma.expense.findMany({ where: { userId, isDeleted: false } })
ExpList(p) ==
    /\ proc[p].pc = "list"
    /\ last' = p
    /\ proc' = [proc EXCEPT ![p] =
           [Succeed(@, 200, "Expenses retrieved successfully")
               EXCEPT !.seen = {e \in ExpIds : /\ expenses[e].exists
                                               /\ expenses[e].userId = proc[p].user
                                               /\ ~expenses[e].isDeleted}]]
    /\ UNCHANGED <<written, asked, limiter, hits, expenses, now, users, sessions, cache, events, clientv, histv>>

\* The store when the expense routes are exercised: both users registered at
\* time 0 and holding their tokens, u2 possibly logged out since; some
\* expenses created, one possibly soft-deleted.
Owned(u, del) == [exists |-> TRUE, userId |-> u, isDeleted |-> del, amount |-> 0]

InitGuard ==
    /\ now = 0
    /\ users = Users
    /\ \E out \in SUBSET {"u2"} :
          /\ sessions = {[token |-> generateRefreshToken(u, 0), userId |-> u,
                          expiresAt |-> SessionTTL] : u \in Users \ out}
          /\ killed = {generateRefreshToken(u, 0) : u \in out}
          /\ logoutAt = [u \in Users |-> IF u \in out THEN 0 ELSE -1]
    /\ cache = [k \in Keys |-> NoEntry]
    /\ proc = [p \in Procs |-> Idle]
    /\ issuedRefresh = {generateRefreshToken(u, 0) : u \in Users}
    /\ issuedAccess = {generateAccessToken(u, 0) : u \in Users}
    /\ events = 0
    /\ last = "env"
    /\ used = {}
    /\ dead = {}
    /\ fresh = {}
    /\ limiter = authLimiter
    /\ hits = <<>>
    /\ written = [k \in Keys |-> NoWrite]
    /\ asked = <<>>
    /\ expenses \in {[e1 |-> a, e2 |-> b] :
                        a \in {NoExpense, Owned("u1", FALSE), Owned("u1", TRUE)},
                        b \in {NoExpense}}

\* a request is served in the first slot that is not in flight
FirstFree(p) == \A q \in Procs : (q # p /\ ~InFlight(q)) => p = "h1"

NextGuard ==
    \/ \E p \in Procs, a \in issuedAccess \cup {NoTok} :
          /\ FirstFree(p)
          /\ \/ \E b \in BodyOwners : ExpAuth(p, a, "POST /", "", b)
             \/ ExpAuth(p, a, "GET /", "", "absent")
             \/ \E id \in IdParams : ExpAuth(p, a, "GET /:id", id, "absent")
             \/ \E id \in IdParams : ExpAuth(p, a, "DELETE /:id", id, "absent")
             \/ \E id \in IdParams, b \in BodyOwners : ExpAuth(p, a, "PUT /:id", id, b)
    \/ \E p \in Procs : ExpOwn(p)
    \/ \E p \in Procs : ExpFind(p)
    \/ \E p \in Procs : ExpWrite(p)
    \/ \E p \in Procs : ExpCreate(p)
    \/ \E p \in Procs : ExpList(p)

SpecGuard == InitGuard /\ [][NextGuard]_vars

----------------------------------------------------------------------------
(* The refresh route: routes/auth.routes.ts, validateBody(refreshTokenSchema) *)
(* before the controller, which reads the refreshToken cookie.                *)

\* req.body.refreshToken: missing, empty, or a non-empty string
RefreshBodies == {"absent", "", "token"}

\* refreshTokenSchema.parse(req.body): refreshToken is a string of length >= 1
refreshTokenSchema(b) == b \notin {"absent", ""}

\* POST /api/auth/refresh with cookie t and body field b: validateBody, then
\* the controller and refreshUserToken up to its transaction
RefRoute(p, t, b) ==
    /\ CanStart(p)
    /\ events' = events + 1
    /\ last' = p
    /\ LET rec == [Idle EXCEPT !.op = "refresh", !.user = t.userId, !.tok = t, !.body = b]
           row == FindByToken(t)
       IN  proc' = Begin(p,
                IF ~refreshTokenSchema(b) THEN Fail(rec, 400, "Validation failed", "validation")
                ELSE IF ~verifyRefreshToken(t, now) THEN Fail(rec, 401, RefreshError, "jwt")
                ELSE IF RowRejected(row, now) THEN Fail(rec, 401, RefreshError, "norow")
                ELSE [rec EXCEPT !.pc = "ref_txn", !.row = row,
                                 !.acc = generateAccessToken(row.userId, now),
                                 !.newTok = generateRefreshToken(row.userId, now),
                                 !.exp = now + SessionTTL])
    /\ UNCHANGED <<guardv, now, users, sessions, cache, clientv, histv>>

NextRefresh ==
    \/ \E p \in Procs, t \in issuedRefresh, b \in RefreshBodies : RefRoute(p, t, b)
    \/ \E p \in Procs : RefTxn(p)
    \/ \E d \in TickSteps : Tick(d)

SpecRefresh == InitGuard /\ [][NextRefresh]_vars

----------------------------------------------------------------------------
(* Steps of a handler, as seen from outside *)

\* Slot p has just answered a Refresh with success / with a failure.
RefreshSucceeds(p) ==
    /\ last' = p
    /\ proc[p].pc = "ref_txn"
    /\ proc'[p].pc = "done" /\ proc'[p].ok

RefreshFails(p) ==
    /\ last' = p
    /\ proc[p].pc \in {"idle", "done", "ref_txn"}
    /\ proc'[p].op = "refresh"
    /\ proc'[p].pc = "done" /\ ~proc'[p].ok

\* Slot p has just run the authentication gate.
GateRuns(p) ==
    /\ last' = p
    /\ proc[p].pc \in {"idle", "done"}
    /\ proc'[p].op \in Routes

GatePasses(p) == GateRuns(p) /\ proc'[p].cause # "gate"

\* Slot p has just completed a Logout.
LogoutCompletes(p) ==
    /\ last' = p
    /\ proc[p].pc = "out_del"
    /\ proc'[p].pc = "done" /\ proc'[p].ok

----------------------------------------------------------------------------
(* Claims *)

\* The two handlers p and q were Refresh calls with the same token that ran
\* concurrently, overlapped no other handler, and both found the token's
\* row stored and unexpired.
RacedRefresh(p, q) ==
    /\ p # q
    /\ proc[p].pc = "done" /\ proc[q].pc = "done"
    /\ proc[p].op = "refresh" /\ proc[q].op = "refresh"
    /\ proc[p].tok = proc[q].tok
    /\ proc[p].peers = {q} /\ proc[q].peers = {p}
    /\ proc[p].ok \/ proc[p].cause = "rollback"
    /\ proc[q].ok \/ proc[q].cause = "rollback"

\* C1: of two concurrent Refresh calls presenting the same valid, unexpired
\* refresh token exactly one succeeds and the other fails with the
\* authentication error: never both succeed, never both fail.
C1_ExactlyOneRefreshSucceeds ==
    \A p, q \in Procs :
        RacedRefresh(p, q) =>
            /\ proc[p].ok # proc[q].ok
            /\ \A r \in {p, q} : ~proc[r].ok => proc[r].status = 401 /\ proc[r].msg = RefreshError

\* C2: a refresh token is single-use: a successful Refresh(T0) returns a
\* token T1 distinct from T0, no later Refresh(T0) succeeds, and a Refresh
\* with a token that a Refresh returned succeeds when no Login, Logout,
\* expiry (or store failure) came in between.
C2_SingleUse ==
    [][\A p \in Procs :
        /\ RefreshSucceeds(p) =>
              /\ proc'[p].newTok # proc[p].tok
              /\ proc[p].tok \notin used
        /\ (RefreshFails(p) /\ proc'[p].tok \in fresh
                            /\ verifyRefreshToken(proc'[p].tok, now)) =>
              proc'[p].cause = "store"]_vars

\* C3: with the calls made one after another (Register, Login, Refresh and
\* Logout mixed), no user has more than one Session row once a call has
\* completed.
C3_SingleActiveSession ==
    Quiet => \A u \in Users : Cardinality(SessionsOf(u)) <= 1

C3_Witness ==
    \E p \in Procs :
        /\ proc[p].pc = "done" /\ proc[p].op = "login" /\ proc[p].ok
        /\ \E t \in dead : t.userId = proc[p].user /\ t # proc[p].newTok
        /\ Cardinality(SessionsOf(proc[p].user)) = 1

\* C4: once a successful Login of user u has completed, no Refresh with a
\* refresh token issued to u before that Login succeeds.
C4_LoginRevokesOlderTokens ==
    [][\A p \in Procs : RefreshSucceeds(p) => proc[p].tok \notin dead]_vars

\* C5: the rotation is all-or-nothing: the transaction of a Refresh either
\* replaces the presented row by exactly one new row of the same user and
\* the call succeeds, or the call fails and the Session table is unchanged.
C5_RotationAtomic ==
    [][\A p \in Procs :
        (last' = p /\ proc[p].pc = "ref_txn" /\ proc'[p].pc = "done") =>
            \/ /\ proc'[p].ok
               /\ \E o \in sessions : \E n \in sessions' :
                    /\ o.token = proc[p].tok
                    /\ n.token = proc'[p].newTok /\ n.userId = o.userId
                    /\ sessions' = (sessions \ {o}) \cup {n}
            \/ /\ ~proc'[p].ok
               /\ proc'[p].status = 401
               /\ sessions' = sessions]_vars

\* a Refresh whose insert failed: the call failed in the transaction and the
\* presented row is still stored
C5_Witness ==
    \E p \in Procs :
        /\ last = p /\ proc[p].pc = "done" /\ proc[p].op = "refresh"
        /\ proc[p].cause = "rollback"
        /\ \E r \in sessions : r.token = proc[p].tok

\* C6: Logout(u) deletes every Session row of u and no row of another user,
\* and from its completion until u logs in again no Refresh with a refresh
\* token issued to u before succeeds, also not one that had passed its
\* lookup before the Logout.
C6_LogoutRevokes ==
    [][\A p \in Procs :
        /\ LogoutCompletes(p) =>
              sessions' = {r \in sessions : r.userId # proc[p].user}
        /\ RefreshSucceeds(p) => proc[p].tok \notin killed]_vars

\* C7: the gate passes a request on only if the access token verifies and
\* its user has a Session row with expiresAt later than now; a token that
\* verifies while its user has no such row is answered 401.
C7_GateNeedsLiveSession ==
    [][\A p \in Procs :
        GateRuns(p) =>
            LET a == proc'[p].tok
                live == \E r \in sessions : r.userId = a.userId /\ r.expiresAt > now
            IN  /\ GatePasses(p) => verifyAccessToken(a, now) /\ live
                /\ (verifyAccessToken(a, now) /\ ~live) =>
                      /\ ~GatePasses(p)
                      /\ proc'[p].pc = "done" /\ proc'[p].status = 401]_vars

\* an unexpired access token answered 401 because its user has no live row
C7_Witness ==
    \E p \in Procs :
        /\ last = p /\ proc[p].pc = "done" /\ proc[p].op \in Routes
        /\ proc[p].status = 401 /\ proc[p].msg = SessionExpired
        /\ verifyAccessToken(proc[p].tok, now)
        /\ logoutAt[proc[p].user] >= 0

\* C8: once Logout(u) has completed (and no session has been created for u
\* since), the session-liveness check for u answers false at every time
\* later than the Logout plus the cache TTL.
C8_StalenessBound ==
    [][\A p \in Procs :
        (GateRuns(p) /\ logoutAt[proc'[p].user] >= 0
                     /\ now > logoutAt[proc'[p].user] + CacheTTL) =>
            ~GatePasses(p)]_vars

C8_Witness ==
    \E p \in Procs :
        /\ last = p /\ proc[p].pc = "done" /\ proc[p].op \in Routes
        /\ proc[p].msg = SessionExpired
        /\ logoutAt[proc[p].user] >= 0
        /\ now > logoutAt[proc[p].user] + CacheTTL

\* C9: the session-liveness check is a read-through cache: an unexpired
\* entry for the user's key is answered from the cache, which stays as it
\* is; otherwise the store is asked, the answer is that of the store and it
\* is written to the cache with a fresh TTL.
C9_ReadThroughCache ==
    [][\A p \in Procs :
        (GateRuns(p) /\ verifyAccessToken(proc'[p].tok, now)) =>
            LET k == Key(proc'[p].user)
            IN  IF CacheHit(cache, k, now)
                THEN /\ GatePasses(p) <=> cache[k].value
                     /\ cache' = cache
                ELSE /\ GatePasses(p) <=> HasActiveSession(proc'[p].user, now)
                     /\ cache' = CacheSet(cache, k, HasActiveSession(proc'[p].user, now), now)
       ]_vars

----------------------------------------------------------------------------
(* Rate limiter claims (SpecLimiter) *)

\* the step is one request answered by the limiter
LimiterAnswers == Len(hits') = Len(hits) + 1

TheAnswer == hits'[Len(hits')]

\* the earlier requests of key k at a time later than t that were let through
HitsSince(k, t) == {i \in 1..Len(hits) : hits[i].key = k /\ hits[i].at > t /\ hits[i].ok}

\* the earlier requests of key k at time t or later
HitsFrom(k, t) == {i \in 1..Len(hits) : hits[i].key = k /\ hits[i].at >= t}

\* C11 as stated: a request that is at least the (M+1)-th of its key within
\* an interval of length W (the W clock steps that end with it), counting
\* only the requests that were let through, is rejected with 429.
C11_AnyWindowOfLengthW ==
    [][LimiterAnswers =>
        (Cardinality(HitsSince(TheAnswer.key, now - limiter.windowMs)) >= limiter.max
            => TheAnswer.status = 429)]_vars

\* C11, amended to the limiter's fixed windows: a window of a key opens with
\* the key's first request, or its first request after the previous window's
\* resetTime, and lasts through resetTime = opening + W.  A request is
\* rejected with 429 exactly when it is the (M+1)-th or a later request of
\* its window, and a request that arrives after the window's resetTime (in
\* the next window) succeeds.
C11_FixedWindowFairness ==
    [][LimiterAnswers =>
        LET k == TheAnswer.key
            w == limiter.requests[k]
            opened == limiter'.requests[k].resetTime - limiter.windowMs
            nth == Cardinality(HitsFrom(k, opened)) + 1
        IN  /\ opened <= now /\ now <= opened + limiter.windowMs
            /\ (nth > limiter.max) <=> (TheAnswer.status = 429)
            /\ (nth <= limiter.max) <=> TheAnswer.ok
            /\ (~w.set \/ now > w.resetTime) => (TheAnswer.ok /\ opened = now)
            /\ (w.set /\ now <= w.resetTime) => opened = w.resetTime - limiter.windowMs]_vars

\* a key whose (M+1)-th request of a window was rejected and whose request
\* in the next window succeeded
C11_Witness ==
    \E i, j \in 1..Len(hits) :
        /\ i < j /\ hits[i].key = hits[j].key
        /\ hits[i].status = 429 /\ hits[j].ok
        /\ hits[j].at > hits[i].at
        /\ Cardinality({h \in 1..i : hits[h].key = hits[i].key}) = limiter.max + 1

\* C12: every request counts, rejected ones too; the request is rejected
\* with 429, remaining 0 and reset = the seconds, rounded up, until the
\* window's resetTime exactly when the count after the increment exceeds
\* max, and otherwise it proceeds with remaining = max - count >= 0.
C12_LimiterAnswer ==
    [][LimiterAnswers =>
        LET a == TheAnswer
            k == a.key
            w == limiter.requests[k]
            before == IF w.set /\ now <= w.resetTime THEN w.count ELSE 0
            d == limiter'.requests[k]
        IN  /\ d.count = before + 1
            /\ a.reset * Hz >= d.resetTime - now
            /\ (a.reset - 1) * Hz < d.resetTime - now
            /\ IF d.count > limiter.max
               THEN a.status = 429 /\ ~a.ok /\ a.remaining = 0
               ELSE a.ok /\ a.status # 429 /\ a.remaining = limiter.max - d.count
            /\ a.remaining >= 0]_vars

\* a second rejected request in one window: the count has passed max + 1
C12_Witness ==
    /\ Len(hits) > 0
    /\ hits[Len(hits)].status = 429
    /\ hits[Len(hits)].remaining = 0
    /\ limiter.requests[hits[Len(hits)].key].count > limiter.max + 1
    /\ hits[Len(hits)].reset > 0

----------------------------------------------------------------------------
(* Ownership guard and gate order claims (SpecGuard) *)

\* slot p has just taken a step of an expense request
ExpStep(p) == last' = p /\ proc'[p].op = "expense"

\* slot p has just run the ownership guard on the row it asked for
OwnershipRuns(p) == last' = p /\ proc[p].pc = "own"

\* slot p has just run enforceUserOwnership
OwnerIdRuns(p) ==
    /\ ExpStep(p)
    /\ proc'[p].route \in Mutating
    /\ \/ proc'[p].cause = "owner-id" /\ proc'[p].pc = "done"
       \/ \E i \in 1..Len(proc'[p].trail) : proc'[p].trail[i] = "owner-id"
    /\ proc[p].pc \in {"idle", "done", "own"}

Has(rec, gate) == \E i \in 1..Len(rec.trail) : rec.trail[i] = gate

\* C13: for an authenticated caller and a resource id the ownership guard
\* answers 404 when the row is missing or soft-deleted, whoever owns it, 403
\* when the row is there, not deleted and owned by another user, and passes
\* control on only when the row is there, not deleted and the caller's own.
C13_OwnershipOutcomes ==
    [][\A p \in Procs : OwnershipRuns(p) =>
        LET e == expenses[proc[p].rid]
            r == proc'[p]
        IN  /\ (~e.exists \/ e.isDeleted) =>
                  (r.pc = "done" /\ r.status = 404 /\ r.msg = NotFound)
            /\ (e.exists /\ ~e.isDeleted /\ e.userId # proc[p].user) =>
                  (r.pc = "done" /\ r.status = 403 /\ r.msg = AccessDenied)
            /\ Has(r, "ownership") <=>
                  (e.exists /\ ~e.isDeleted /\ e.userId = proc[p].user)]_vars

\* one request turned away with 403 at a row of another user while another
\* request passed the guard
C13_Witness ==
    \E p, q \in Procs :
        /\ proc[p].pc = "done" /\ proc[p].cause = "ownership" /\ proc[p].status = 403
        /\ expenses[proc[p].rid].userId # proc[p].user
        /\ Has(proc[q], "ownership")

\* C14: a caller who asks for a row of another user gets the status and the
\* message of a caller who asks for an id with no row: two answered
\* requests of one caller on the same route, one for another user's row and
\* one for a missing id, carry the same status and message.
C14_OwnershipNonLeak ==
    \A p, q \in Procs :
        (/\ proc[p].pc = "done" /\ proc[q].pc = "done"
         /\ proc[p].op = "expense" /\ proc[q].op = "expense"
         /\ proc[p].route \in ById /\ proc[q].route = proc[p].route
         /\ proc[p].user = proc[q].user
         /\ Has(proc[p], "session") /\ Has(proc[q], "session")
         /\ proc[p].rid \in ExpIds /\ proc[q].rid \in ExpIds
         /\ expenses[proc[p].rid].exists /\ ~expenses[proc[p].rid].isDeleted
         /\ expenses[proc[p].rid].userId # proc[p].user
         /\ ~expenses[proc[q].rid].exists)
        => (proc[p].status = proc[q].status /\ proc[p].msg = proc[q].msg)

\* C15: on a POST or PUT that reaches enforceUserOwnership, an owner id in
\* the body (an empty one counts as none) that differs from the caller's id
\* is answered 403, and otherwise the owner id handed on is the caller's id;
\* every expense created has the userId of the authenticated caller,
\* whatever owner id the client sent.
C15_OwnerIdEnforced ==
    [][\A p \in Procs :
        /\ OwnerIdRuns(p) =>
              LET r == proc'[p]
              IN  IF Truthy(r.sent) /\ r.sent # r.tok.userId
                  THEN r.pc = "done" /\ r.status = 403 /\ r.msg = OnlyYourself
                       /\ ~Has(r, "handler")
                  ELSE r.cause # "owner-id" /\ r.body = r.tok.userId
        /\ (last' = p /\ proc[p].pc = "create") =>
              \A e \in ExpIds : (expenses'[e].exists /\ ~expenses[e].exists) =>
                  (expenses'[e].userId = proc[p].tok.userId
                   /\ verifyAccessToken(proc[p].tok, now))]_vars

\* an expense created for the caller although the body named no owner or an
\* empty one, next to a request turned away for naming another user
C15_Witness ==
    \E p, q \in Procs :
        /\ proc[p].pc = "done" /\ proc[p].route = "POST /" /\ proc[p].ok
        /\ proc[p].sent # proc[p].user
        /\ \E e \in proc[p].seen : expenses[e].userId = proc[p].user
        /\ proc[q].pc = "done" /\ proc[q].cause = "owner-id" /\ proc[q].status = 403
        /\ proc[q].sent \in Users \ {proc[q].user}

\* the gates of a route, in the order the router runs them, and the handler
Order(route) ==
    <<"token", "session">>
        \o (IF route \in ById THEN <<"ownership">> ELSE <<>>)
        \o (IF route \in Mutating THEN <<"owner-id">> ELSE <<>>)
        \o <<"handler">>

IsPrefix(a, b) == Len(a) <= Len(b) /\ \A i \in 1..Len(a) : a[i] = b[i]

GateCauses == {"gate", "objectid", "ownership", "owner-id"}

\* C16: an expense handler runs only after token verification, the session
\* check and (for a route that names a resource, or a body owner) the
\* ownership checks have passed, in this order; a request a gate rejects
\* passes no later gate, reaches no handler and changes no store.  (No
\* expense route is rate-limited.)
C16_GateOrdering ==
    [][\A p \in Procs : ExpStep(p) =>
        LET r == proc'[p]
        IN  /\ IsPrefix(r.trail, Order(r.route))
            /\ (proc[p].pc \in {"idle", "done"} /\ Has(r, "session")) =>
                  Gate(r.tok, now) = "pass"
            /\ (r.pc \in {"find", "write", "create", "list"} \/ r.seen # {}
                  \/ expenses' # expenses) => r.trail = Order(r.route)
            /\ (r.pc = "done" /\ r.cause \in GateCauses) =>
                  /\ ~Has(r, "handler")
                  /\ proc[p].pc \in {"idle", "done", "own"}
                  /\ expenses' = expenses /\ sessions' = sessions /\ users' = users
            /\ limiter' = limiter]_vars

\* an update that went through all four gates, next to a request a gate
\* turned away
C16_Witness ==
    \E p, q \in Procs :
        /\ proc[p].pc = "done" /\ proc[p].ok /\ proc[p].route = "PUT /:id"
        /\ proc[p].trail = <<"token", "session", "ownership", "owner-id", "handler">>
        /\ proc[q].pc = "done" /\ proc[q].cause = "gate" /\ proc[q].msg = SessionExpired
        /\ proc[q].op = "expense"

----------------------------------------------------------------------------
(* Failure responses of the auth routes *)

\* slot p has just answered a Login with the credentials failure
LoginRejected(p) ==
    /\ last' = p /\ proc[p].pc \in {"idle", "done"}
    /\ proc'[p].op = "login" /\ proc'[p].pc = "done" /\ proc'[p].cause = "credentials"

\* C17: a Login for an e-mail with no user and a Login with a wrong
\* password get the same status and message, and neither deletes nor
\* creates a Session row.
C17_LoginFailureUniform ==
    [][\A p \in Procs : LoginRejected(p) =>
        /\ sessions' = sessions
        /\ \A q \in Procs \ {p} :
              (proc[q].pc = "done" /\ proc[q].op = "login" /\ proc[q].cause = "credentials")
                  => (proc'[p].status = proc[q].status /\ proc'[p].msg = proc[q].msg)]_vars

\* a rejected Login of a registered user next to one of an unknown e-mail
C17_Witness ==
    \E p, q \in Procs :
        /\ proc[p].pc = "done" /\ proc[p].op = "login" /\ proc[p].cause = "credentials"
        /\ proc[q].pc = "done" /\ proc[q].op = "login" /\ proc[q].cause = "credentials"
        /\ proc[p].user \in users /\ proc[q].user \notin users
        /\ last = p

\* C18: a Register for an e-mail that already has a user is answered 409
\* and changes neither the users nor the Session rows.
C18_RegisterConflict ==
    [][\A p \in Procs :
        (/\ last' = p /\ proc[p].pc \in {"idle", "done"}
         /\ proc'[p].op = "register" /\ proc'[p].user \in users)
        => (/\ proc'[p].pc = "done" /\ ~proc'[p].ok
            /\ proc'[p].status = 409
            /\ users' = users /\ sessions' = sessions)]_vars

\* C19: a store failure during a Refresh is answered with a 5xx status,
\* never with 401.
C19_StoreFailureIs5xx ==
    [][\A p \in Procs :
        (last' = p /\ proc'[p].op = "refresh" /\ proc'[p].cause = "store")
        => (proc'[p].status >= 500 /\ proc'[p].status <= 599)]_vars

\* C20: a refresh request without a body field whose cookie holds a token
\* that verifies and has a stored, unexpired row is not turned away: it
\* goes on to the rotation.
C20_RefreshNeedsNoBody ==
    [][\A p \in Procs :
        (/\ last' = p /\ proc[p].pc \in {"idle", "done"}
         /\ proc'[p].op = "refresh" /\ proc'[p].body = "absent"
         /\ verifyRefreshToken(proc'[p].tok, now)
         /\ ~RowRejected(FindByToken(proc'[p].tok), now))
        => proc'[p].pc = "ref_txn"]_vars

\* ---------------------------------------------------------------------
\* C21: every step of an expense request of caller c returns only rows whose
\* userId is c and changes only rows whose userId is c (before and after
\* the step); rows of other users are neither read nor written.
C21_OwnExpensesOnly ==
    [][\A p \in Procs : ExpStep(p) =>
          /\ \A e \in proc'[p].seen :
                 expenses'[e].exists /\ expenses'[e].userId = proc'[p].user
          /\ \A e \in ExpIds : expenses'[e] # expenses[e] =>
                 /\ expenses'[e].userId = proc'[p].user
                 /\ expenses[e].exists => expenses[e].userId = proc'[p].user]_vars

\* u1 has read or changed its own row e1, and u2's request for the same
\* row was turned away
C21_Witness ==
    \E p, q \in Procs :
       /\ proc[p].pc = "done" /\ proc[p].op = "expense" /\ proc[p].ok
       /\ proc[p].user = "u1" /\ proc[p].rid = "e1" /\ proc[p].route \in ById
       /\ proc[q].pc = "done" /\ proc[q].op = "expense" /\ ~proc[q].ok
       /\ proc[q].user = "u2" /\ proc[q].rid = "e1" /\ proc[q].route \in ById
       /\ proc[q].cause \notin {"gate"}
       /\ expenses["e1"].exists /\ expenses["e1"].userId = "u1"

\* ---------------------------------------------------------------------
(* The HTTP response of register, login and refreshToken,
   auth.controller.ts 184-311: the token fields of the JSON body's data and
   the cookie set on the response, computed from the service's result *)

AuthOps == {"register", "login", "refresh"}
RefreshPath == "/api/auth/refresh"
NoCookie == [name |-> "", value |-> NoTok, path |-> "", httpOnly |-> FALSE]

\* (variant) the controller passes the service's whole result to success()
ResponseData_WholeResult(rec) ==
    IF rec.ok THEN [accessToken |-> rec.acc, refreshToken |-> rec.newTok]
    ELSE [accessToken |-> NoTok]

\* success(res, message, { user, accessToken }) / { accessToken }; error()
\* carries no data
ResponseData(rec) ==
    IF rec.ok THEN [accessToken |-> rec.acc] ELSE [accessToken |-> NoTok]

\* res.cookie('refreshToken', result.refreshToken, { httpOnly, path })
SetCookie(rec) ==
    IF rec.ok
    THEN [name |-> "refreshToken", value |-> rec.newTok, path |-> RefreshPath,
          httpOnly |-> TRUE]
    ELSE NoCookie

Answered(p) == proc[p].pc = "done" /\ proc[p].op \in AuthOps

\* C22: no field of the response body of Register, Login or Refresh holds a
\* refresh token; the refresh token the service issued is the value of the
\* refreshToken cookie, whose path is the refresh path, and a failed call
\* sets no cookie.
C22_RefreshTokenOnlyInCookie ==
    \A p \in Procs : Answered(p) =>
       LET data == ResponseData(proc[p])
           cookie == SetCookie(proc[p])
       IN  /\ \A f \in DOMAIN data :
                 data[f].kind # "refresh" /\ data[f] \notin issuedRefresh
           /\ proc[p].ok =>
                 /\ proc[p].newTok.kind = "refresh"
                 /\ cookie.name = "refreshToken" /\ cookie.value = proc[p].newTok
                 /\ cookie.path = RefreshPath /\ cookie.httpOnly
                 /\ data.accessToken = proc[p].acc
           /\ ~proc[p].ok => cookie = NoCookie

\* a Register, a Login and a Refresh have each been answered successfully
C22_Witness ==
    /\ \E p \in Procs : Answered(p) /\ proc[p].ok /\ proc[p].op = "refresh"
    /\ \E p \in Procs : Answered(p) /\ proc[p].ok /\ proc[p].op = "login"
    /\ \E u \in users : \E t \in issuedRefresh : t.userId = u

\* ---------------------------------------------------------------------
(* Tokens a client can present that the server never issued: a token whose
   signature does not verify (forged, or signed with another algorithm),
   and a token signed with the other secret (a refresh token sent as access
   token and the reverse); utils/jwt.ts verifyAccessToken,
   verifyRefreshToken *)

Forged == {[kind |-> "forged", userId |-> u, iat |-> 0] : u \in Users}

PresentedAccess == issuedAccess \cup issuedRefresh \cup Forged
PresentedRefresh == issuedRefresh \cup issuedAccess \cup Forged

NextTokens ==
    \/ \E p \in Procs, a \in PresentedAccess, route \in Routes :
          FirstFree(p) /\ Auth(p, a, route)
    \/ \E p \in Procs : OutDel(p)
    \/ \E p \in Procs, t \in PresentedRefresh : FirstFree(p) /\ RefFind(p, t)
    \/ \E p \in Procs : RefTxn(p)
    \/ \E d \in TickSteps : Tick(d)

\* both users registered at time 0 and logged in, no expense rows
InitTokens == InitGuard /\ killed = {} /\ expenses = [e \in ExpIds |-> NoExpense]

SpecTokens == InitTokens /\ [][NextTokens]_vars

\* the token of slot p's request carries a signature of the right secret
\* and is past its exp claim at time t
ExpiredAt(tok, kind, t) ==
    /\ tok.kind = kind
    /\ Sec(t) >= tok.iat + (IF kind = "access" THEN AccessTTL ELSE RefreshTTL)

SameResponse(a, b) == a.ok = b.ok /\ a.status = b.status /\ a.msg = b.msg

\* C23: when the gate rejects an expired access token, its response (status
\* and message) equals the response any earlier request got for a token that
\* is forged or signed with the wrong secret; and the same for Refresh with
\* an expired refresh token against a forged one.
C23_FailureCauseHidden ==
    [][\A p, q \in Procs :
          /\ (/\ GateRuns(p) /\ ExpiredAt(proc'[p].tok, "access", now)
              /\ q # p /\ proc[q].pc = "done" /\ proc[q].op \in Routes
              /\ proc[q].tok.kind # "access")
             => (~proc'[p].ok /\ proc'[p].pc = "done"
                 /\ SameResponse(proc'[p], proc[q]))
          /\ (/\ RefreshFails(p) /\ ExpiredAt(proc'[p].tok, "refresh", now)
              /\ q # p /\ proc[q].pc = "done" /\ proc[q].op = "refresh"
              /\ proc[q].tok.kind # "refresh")
             => SameResponse(proc'[p], proc[q])]_vars

\* one request was rejected for an expired access token of a user whose
\* session is live, another for a forged one
C23_Witness ==
    \E p, q \in Procs :
       /\ proc[p].pc = "done" /\ proc[p].op \in Routes /\ ~proc[p].ok
       /\ ExpiredAt(proc[p].tok, "access", now)
       /\ HasActiveSession(proc[p].tok.userId, now)
       /\ proc[q].pc = "done" /\ proc[q].op \in Routes /\ ~proc[q].ok
       /\ proc[q].tok \in Forged
       /\ proc[p].status = 401 /\ proc[p].msg = InvalidAccess

\* ---------------------------------------------------------------------
\* Slot p runs the store operation of its Refresh (the transaction).
RotationRuns(p) == last' = p /\ proc[p].pc = "ref_txn"

\* C24: the rotation of a Refresh for user u never takes u from having a
\* live Session row to having none, whether it commits or rolls back; and an
\* authentication check for u with a valid access token that runs while the
\* Refresh is in progress and u has a live row is passed on, not answered
\* 'Session expired'.
C24_RotationNeverEmpties ==
    [][\A p \in Procs :
          /\ RotationRuns(p) =>
                (HasActiveSession(proc[p].user, now) =>
                    \E r \in sessions' : r.userId = proc[p].user /\ r.expiresAt > now')
          /\ \A q \in Procs :
                (/\ q # p /\ GateRuns(p) /\ proc[q].pc = "ref_txn"
                 /\ proc[q].user = proc'[p].tok.userId
                 /\ verifyAccessToken(proc'[p].tok, now)
                 /\ HasActiveSession(proc[q].user, now))
                => (GatePasses(p) /\ proc'[p].msg # SessionExpired)]_vars

\* an authentication check for u passed while a Refresh for u was between
\* its lookup and its transaction, and the Refresh has committed since
C24_Witness ==
    \E p, q \in Procs :
       /\ proc[p].pc = "done" /\ proc[p].op = "expenses" /\ proc[p].ok
       /\ q \in proc[p].peers
       /\ proc[q].pc = "done" /\ proc[q].op = "refresh" /\ proc[q].ok
       /\ proc[q].user = proc[p].user
       /\ HasActiveSession(proc[p].user, now)

\* ---------------------------------------------------------------------
(* Login and Refresh calls of registered users, run concurrently:
   auth.service.ts loginUser 56-100, refreshUserToken 103-154 *)
NextLogin ==
    \/ \E p \in Procs, u \in Users, pw \in Passwords : FirstFree(p) /\ LogFind(p, u, pw)
    \/ \E p \in Procs : LogDel(p)
    \/ \E p \in Procs : LogSave(p)
    \/ \E p \in Procs, t \in issuedRefresh : FirstFree(p) /\ RefFind(p, t)
    \/ \E p \in Procs : RefTxn(p)
    \/ \E d \in TickSteps : Tick(d)

SpecLogin == InitTokens /\ [][NextLogin]_vars

\* C25: once a Login of user u and another Login or a Refresh of u that ran
\* concurrently with it (their steps overlapped) have both succeeded, u has
\* at most one Session row.
C25_OneRowUnderConcurrentLogin ==
    \A p, q \in Procs :
       (/\ p # q /\ q \in proc[p].peers
        /\ proc[p].op = "login" /\ proc[q].op \in {"login", "refresh"}
        /\ proc[p].user = proc[q].user
        /\ proc[p].pc = "done" /\ proc[q].pc = "done"
        /\ proc[p].ok /\ proc[q].ok)
       => Cardinality(SessionsOf(proc[p].user)) <= 1

\* ---------------------------------------------------------------------
(* The exported tokenCache driven by a client: set, get, delete, clear and
   the timer's cleanExpired, utils/cache.ts 6-49 *)

MaxCacheOps == 5
CacheTicks == {1, CacheTTL}

CacheOp(who) ==
    /\ events < MaxCacheOps
    /\ events' = events + 1
    /\ last' = who
    /\ UNCHANGED <<limiter, hits, expenses, asked, users, sessions, proc, clientv, histv>>

\* set(key, value)
TcSet(k, v) ==
    /\ CacheOp("set")
    /\ cache' = CacheSet(cache, k, v, now)
    /\ written' = [written EXCEPT ![k] = [live |-> TRUE, value |-> v, at |-> now]]
    /\ UNCHANGED now

\* get(key): the entry found expired is deleted
TcGet(k) ==
    /\ CacheOp("get")
    /\ cache' = CacheAfterGet(cache, k, now)
    /\ UNCHANGED <<written, now>>

\* delete(key)
TcDelete(k) ==
    /\ CacheOp("delete")
    /\ cache' = CacheDelete(cache, k)
    /\ written' = [written EXCEPT ![k].live = FALSE]
    /\ UNCHANGED now

\* clear()
TcClear ==
    /\ CacheOp("clear")
    /\ cache' = [k \in Keys |-> NoEntry]
    /\ written' = [k \in Keys |-> [written[k] EXCEPT !.live = FALSE]]
    /\ UNCHANGED now

\* (variant) the sweep drops the entries at or past their expiry
SweptEntry_AtExpiry(c, k, t) == IF c[k].set /\ t >= c[k].expiry THEN NoEntry ELSE c[k]

\* cleanExpired(): if (now > item.expiry) this.cache.delete(key)
SweptEntry(c, k, t) == IF c[k].set /\ t > c[k].expiry THEN NoEntry ELSE c[k]

TcSweep ==
    /\ CacheOp("sweep")
    /\ cache' = [k \in Keys |-> SweptEntry(cache, k, now)]
    /\ UNCHANGED <<written, now>>

TcTick(d) ==
    /\ CacheOp("env")
    /\ now' = now + d
    /\ UNCHANGED <<cache, written>>

NextCache ==
    \/ \E k \in Keys, v \in BOOLEAN : TcSet(k, v)
    \/ \E k \in Keys : TcGet(k)
    \/ \E k \in Keys : TcDelete(k)
    \/ TcClear
    \/ TcSweep
    \/ \E d \in CacheTicks : TcTick(d)

SpecCache == Init /\ [][NextCache]_vars

\* C26: at every time get(key) returns the value of the latest set(key, v)
\* exactly when no delete(key) or clear followed that set and now is not past
\* the set's time plus the TTL, and is absent otherwise; the sweep removes
\* exactly the entries get treats as absent, leaves the others unchanged and
\* changes the result of no get.
C26_CacheSemantics ==
    [][/\ \A k \in Keys :
             /\ CacheHit(cache', k, now') = (written'[k].live /\ now' <= written'[k].at + CacheTTL)
             /\ CacheHit(cache', k, now') => CacheGet(cache', k, now') = written'[k].value
       /\ last' = "sweep" =>
             \A k \in Keys :
                /\ cache[k].set /\ ~CacheHit(cache, k, now) => cache'[k] = NoEntry
                /\ CacheHit(cache, k, now) => cache'[k] = cache[k]
                /\ CacheHit(cache', k, now') = CacheHit(cache, k, now)]_vars

\* after a sweep: an entry set after time 0 that is read at exactly its set's
\* time plus the TTL, and another entry that has expired and been swept away
C26_Witness ==
    \E k, j \in Keys :
       /\ last = "sweep"
       /\ written[k].live /\ written[k].at > 0 /\ now = written[k].at + CacheTTL
       /\ CacheHit(cache, k, now)
       /\ written[j].live /\ now > written[j].at + CacheTTL /\ cache[j] = NoEntry

\* ---------------------------------------------------------------------
\* the gate's findFirst counts row r at time t: expiresAt: { gt: new Date() }
CountsAsActive(r, t) == r.expiresAt > t

\* C27: at every instant, for every Session row, Refresh treats the row as
\* unexpired (its expiry test does not reject it) if and only if the
\* authentication gate counts the row as a non-expired session.
C27_LivenessAgrees ==
    \A r \in sessions : (~RowRejected(r, now)) <=> CountsAsActive(r, now)

\* ---------------------------------------------------------------------
\* C28: the gate passes every request whose access token verifies and whose
\* user has a non-expired Session row, whichever session issued the token: a
\* token issued before a later Login or Refresh of its user is accepted like
\* any other.
C28_AcceptanceIgnoresIssuer ==
    [][\A p \in Procs :
        GateRuns(p) =>
            LET a == proc'[p].tok
            IN  (verifyAccessToken(a, now) /\ HasActiveSession(a.userId, now))
                   => (GatePasses(p) /\ proc'[p].status # 401)]_vars

\* a request passed the gate with an access token issued before the Login
\* or Refresh that created its user's only Session row
C28_Witness ==
    \E p \in Procs :
        /\ last = p /\ proc[p].pc = "done" /\ proc[p].op = "expenses" /\ proc[p].ok
        /\ SessionsOf(proc[p].user) # {}
        /\ \A r \in SessionsOf(proc[p].user) : r.token.iat > proc[p].tok.iat
        /\ \E t \in dead \cup used : t.userId = proc[p].user /\ t.iat = proc[p].tok.iat

\* ---------------------------------------------------------------------
(* The limiter in front of the auth routes: authLimiter.middleware() is the
   first handler of POST /register, /login and /refresh (routes 11-13), one
   RateLimiter instance with keyGenerator req.ip + ':auth' *)

MaxAuthOps == 7
Addresses == {"ip1", "ip2"}
AuthRoutes == {"register", "login", "refresh"}

\* keyGenerator: (req) => req.ip + ':auth'
keyGenerator(ip, route) == IF ip = "ip1" THEN "ip1:auth" ELSE "ip2:auth"

AuthOp(who) ==
    /\ events < MaxAuthOps
    /\ events' = events + 1
    /\ last' = who
    /\ UNCHANGED <<users, sessions, cache, proc, clientv, histv, expenses, written>>

\* one request from address ip on an auth route; hits holds its answer
AuthHit(ip, route) ==
    /\ AuthOp(ip)
    /\ LET k == keyGenerator(ip, route)
       IN  /\ limiter' = [limiter EXCEPT !.requests[k] = Counted(limiter, k, now)]
           /\ hits' = <<Answer(limiter, k, now)>>
    /\ asked' = asked (+) SetToBag({[ip |-> ip, route |-> route]})
    /\ UNCHANGED now

\* the timer's cleanExpired()
AuthClean ==
    /\ AuthOp("timer")
    /\ limiter' = [limiter EXCEPT !.requests =
                      [k \in LimKeys |->
                          IF now > limiter.requests[k].resetTime THEN NoWindow
                          ELSE limiter.requests[k]]]
    /\ UNCHANGED <<hits, asked, now>>

\* the clock advances by one step or by the length of the window
AuthTick(d) ==
    /\ AuthOp("env")
    /\ now' = now + d
    /\ UNCHANGED <<limiter, hits, asked>>

NextAuthLimiter ==
    \/ \E ip \in Addresses, route \in AuthRoutes : AuthHit(ip, route)
    \/ AuthClean
    \/ \E d \in {1, authLimiter.windowMs} : AuthTick(d)

SpecAuthLimiter == Init /\ [][NextAuthLimiter]_vars

\* the requests address ip has made so far, over all auth routes
AskedBy(ip) ==
    LET n(route) == CopiesIn([ip |-> ip, route |-> route], asked)
    IN  n("register") + n("login") + n("refresh")

\* C29: a request from address ip on any auth route is counted under the key
\* of ip alone and leaves every other key's window unchanged; a request
\* inside an open window adds one to its count and leaves its resetTime
\* where it was, accepted or not; as long as the first window of ip is open,
\* the request is accepted exactly when ip has made at most 5 requests over
\* the three routes together; and a request made with no open window (none
\* yet, or resetTime has passed) is accepted and opens a new window.
C29_SharedFixedWindows ==
    [][\A ip \in Addresses : (last' = ip /\ events' = events + 1) =>
          LET k == ip \o ":auth"
              w == limiter.requests[k]
              open == w.set /\ now <= w.resetTime
              ans == hits'[1]
          IN  /\ ans.key = k
              /\ \A j \in LimKeys \ {k} : limiter'.requests[j] = limiter.requests[j]
              /\ open => /\ limiter'.requests[k].resetTime = w.resetTime
                         /\ limiter'.requests[k].count = w.count + 1
              /\ (open /\ w.count = AskedBy(ip)) =>
                    (ans.ok <=> AskedBy(ip) + 1 <= 5)
              /\ ~open => /\ ans.ok
                          /\ limiter'.requests[k] =
                                [set |-> TRUE, count |-> 1,
                                 resetTime |-> now + 15 * 60 * Hz]]_vars

\* the sixth request of ip1 in its first window is answered 429 although no
\* single route has had more than two requests, while the window of ip2
\* stands as its one request left it
C29_Witness ==
    /\ last = "ip1" /\ Len(hits) = 1
    /\ hits[1].status = 429 /\ hits[1].key = "ip1:auth"
    /\ AskedBy("ip1") = 6
    /\ \A route \in AuthRoutes : CopiesIn([ip |-> "ip1", route |-> route], asked) = 2
    /\ limiter.requests["ip2:auth"].set /\ limiter.requests["ip2:auth"].count = 1

\* ---------------------------------------------------------------------
\* C30: once an expense's isDeleted flag is set, no step changes the row
\* (no update is applied, the flag is not cleared) and no response returns
\* it, whatever the interleaving of the requests.
C30_DeletedIsFrozen ==
    [][\A e \in ExpIds :
          (expenses[e].exists /\ expenses[e].isDeleted) =>
             /\ expenses'[e] = expenses[e]
             /\ \A p \in Procs : ExpStep(p) => e \notin proc'[p].seen]_vars
====
